---- MODULE Spec2Model ----
(***************************************************************************)
(* Model of the image fraud detector: the /analyze endpoint (src/app.py)   *)
(* and analyze_image_bytes with its helpers (src/detector.py).             *)
(*                                                                         *)
(* Numbers.  Every real number of the program (scores, weights, signal     *)
(* readings, thresholds) is a decimal with at most five places here, held  *)
(* as an integer count of 1e-5: 0.25 is 25000, 10 is 1000000.  The weights *)
(* are multiples of 0.05 and the double sums the code forms from them      *)
(* compare with 0.30, 0.60, 0.75 and 1.0 exactly as the decimals do (all   *)
(* 64 paths through lines 97-141 were enumerated in double arithmetic), so *)
(* the fixed-point score takes the same branches as the float score.       *)
(* NaN, which numpy produces for a 0/0 correlation, is kept as a value of  *)
(* its own: every ordered comparison with it is false, as in Python.       *)
(*                                                                         *)
(* Text.  Strings the code inspects (content type, software tag) are       *)
(* sequences of one-character strings; strings it only passes on are TLA+  *)
(* strings.  Python's None is the record None; a value v that may be None  *)
(* is Some(v).                                                             *)
(***************************************************************************)
EXTENDS Integers, Sequences, FiniteSets, TLC

VARIABLES
    pc,          \* position of the request in the handler / in analyze_image_bytes
    request,     \* the upload: content type and body
    image,       \* the decoded image (detector.py:71-72)
    meta,        \* extract_exif's return value (detector.py:77)
    ela,         \* error_level_analysis's return value (detector.py:82)
    hf,          \* high_frequency_score's return value (detector.py:87)
    corr,        \* rgb_correlation's return value (detector.py:92)
    fusion,      \* the scoring block's locals (detector.py:97-143)
    result,      \* the dict analyze_image_bytes returns (detector.py:145-162)
    response,    \* what the endpoint answers
    other,       \* a second (MetadataRecord, SignalReadings) input, for comparisons
    otherFusion  \* the scoring block's locals on that second input

vars == <<pc, request, image, meta, ela, hf, corr, fusion, result, response,
          other, otherFusion>>

----------------------------------------------------------------------------
(* Python values *)

None == [some |-> FALSE]
Some(v) == [some |-> TRUE, val |-> v]

NaN == [nan |-> TRUE, val |-> 0]
Num(x) == [nan |-> FALSE, val |-> x]

Max(a, b) == IF a >= b THEN a ELSE b
Min(a, b) == IF a <= b THEN a ELSE b
Abs(a) == IF a < 0 THEN 0 - a ELSE a

\* Python's round(x, k) on the fixed-point value x: to the nearest multiple of
\* q (q = 100 for k = 3, q = 10 for k = 4), a tie going to the even multiple.
RoundTo(x, q) ==
    LET a     == Abs(x)
        lower == (a \div q) * q
        rem   == a - lower
        up    == 2 * rem > q \/ (2 * rem = q /\ (lower \div q) % 2 = 1)
        mag   == IF up THEN lower + q ELSE lower
    IN  IF x < 0 THEN 0 - mag ELSE mag

Round3(x) == RoundTo(x, 100)
Round4(c) == IF c.nan THEN NaN ELSE Num(RoundTo(c.val, 10))

\* str.lower() on a sequence of characters
UpperCase == <<"A","B","C","D","E","F","G","H","I","J","K","L","M",
               "N","O","P","Q","R","S","T","U","V","W","X","Y","Z">>
LowerCase == <<"a","b","c","d","e","f","g","h","i","j","k","l","m",
               "n","o","p","q","r","s","t","u","v","w","x","y","z">>
LowerChar(c) ==
    IF \E i \in 1..26 : UpperCase[i] = c
    THEN LowerCase[CHOOSE i \in 1..26 : UpperCase[i] = c]
    ELSE c
Lower(s) == [i \in 1..Len(s) |-> LowerChar(s[i])]

\* `k in s` for strings: k occurs in s as a contiguous run
Contains(s, k) ==
    \E i \in 0..(Len(s) - Len(k)) : SubSeq(s, i + 1, i + Len(k)) = k

\* s.startswith(p)
StartsWith(s, p) == Len(s) >= Len(p) /\ SubSeq(s, 1, Len(p)) = p

----------------------------------------------------------------------------
(* Bounds and input sets *)

\* Pixels per decoded image.
NPix == 2

\* Channel values.  The correlation of two channels does not change when both
\* are scaled, so 0 and 1 stand for a dark and a bright 8-bit value.
PixelValues == {0, 1}

\* Per-pixel intensities of the ELA difference image (0..255): an unchanged
\* pixel, a slightly changed one, and one above the hot-pixel level of 40.
ElaLevels == {0, 6, 45}

\* Laplacian variances cv2 may return (20, 35 and 200), around the threshold 35.
HfReadings == {2000000, 3500000, 20000000}

Channels == [1..NPix -> PixelValues]

\* Software tags as written by the tool that saved the file.
TagCanon     == <<"C","a","n","o","n">>
TagPhotoshop == <<"A","d","o","b","e"," ","P","h","o","t","o","s","h","o","p">>
TagSnapseed  == <<"S","n","a","p","s","e","e","d">>
TagEditor    == <<"P","i","c","s"," ","E","D","I","T","O","R">>

\* The embedded metadata block of an upload: unreadable, or the mapping
\* exif.items() yields, from tag number to value (empty when there is no block).
ExifBlocks ==
    { [kind |-> "unreadable"],
      [kind |-> "ifd", tags |-> << >>],
      [kind |-> "ifd", tags |-> (306 :> "2024:05:01 10:00:00")],
      [kind |-> "ifd", tags |-> (305 :> TagCanon @@ 36867 :> "2024:05:01 09:59:58")],
      [kind |-> "ifd", tags |-> (305 :> TagPhotoshop @@ 306 :> "2024:05:02 18:30:00"
                                  @@ 36867 :> "2024:05:01 09:59:58"
                                  @@ 36868 :> "2024:05:01 09:59:59")],
      [kind |-> "ifd", tags |-> (305 :> TagEditor)] }

ImageBodies ==
    { [kind |-> "image", exif |-> x, r |-> r, g |-> g, b |-> b] :
        x \in ExifBlocks, r \in Channels, g \in Channels, b \in Channels }

\* Bodies Image.open(...).convert("RGB") cannot decode, and the empty upload.
\* A truncated file still holds its header and first rows.
BadBodies ==
    { [kind |-> "empty"], [kind |-> "malformed"], [kind |-> "unsupported"],
      [kind |-> "truncated", exif |-> [kind |-> "ifd", tags |-> << >>],
       r |-> [i \in 1..NPix |-> 0], g |-> [i \in 1..NPix |-> 1],
       b |-> [i \in 1..NPix |-> i % 2]] }

CtJpeg == <<"i","m","a","g","e","/","j","p","e","g">>
CtText == <<"t","e","x","t","/","p","l","a","i","n">>
CtImg  == <<"i","m","g">>

ContentTypes == {None, Some(CtJpeg), Some(CtText), Some(CtImg)}

----------------------------------------------------------------------------
(* extract_exif, detector.py:9-24 *)

EmptyRecord ==
    [exif_present |-> FALSE, software_tag |-> None, datetime_original |-> None,
     datetime_digitized |-> None, datetime_generic |-> None]

\* dict.get(key): the value under key, or None
DictGet(d, key) == IF key \in DOMAIN d THEN Some(d[key]) ELSE None

\* image.getexif().get_ifd(0): Pillow's Exif.get_ifd returns the sub-directory
\* stored under an IFD pointer tag (34665, 34853, 37500, 40965); 0 is none of
\* them, so the mapping it returns is empty.
IfdZero == << >>

\* The key line 15 files a tag's value under
ExifKey(tag) == DictGet(IfdZero, tag)

\* Line 15: {get_ifd(0).get(tag): val for tag, val in exif.items()}; of the
\* tags filed under one key the last one iterated (the largest) is kept.
ExifDict(tags) ==
    [k \in {ExifKey(t) : t \in DOMAIN tags} |->
        tags[CHOOSE t \in DOMAIN tags :
                /\ ExifKey(t) = k
                /\ \A u \in DOMAIN tags : ExifKey(u) = k => u <= t]]

\* exif_dict.get(n) for the Python int n
ExifLookup(d, n) == DictGet(d, Some(n))

\* extract_exif without the emptiness test of lines 12-13
extract_exif_unchecked(img) ==
    IF img.exif.kind = "unreadable" THEN EmptyRecord
    ELSE LET exif_dict == ExifDict(img.exif.tags)
         IN  [exif_present       |-> TRUE,
              software_tag       |-> ExifLookup(exif_dict, 305),
              datetime_original  |-> ExifLookup(exif_dict, 36867),
              datetime_digitized |-> ExifLookup(exif_dict, 36868),
              datetime_generic   |-> ExifLookup(exif_dict, 306)]

extract_exif(img) ==
    IF img.exif.kind = "unreadable" THEN EmptyRecord            \* lines 23-24
    ELSE IF DOMAIN img.exif.tags = {} THEN EmptyRecord          \* lines 12-13
    ELSE LET exif_dict == ExifDict(img.exif.tags)
         IN  [exif_present       |-> TRUE,
              software_tag       |-> ExifLookup(exif_dict, 305),
              datetime_original  |-> ExifLookup(exif_dict, 36867),
              datetime_digitized |-> ExifLookup(exif_dict, 36868),
              datetime_generic   |-> ExifLookup(exif_dict, 306)]

----------------------------------------------------------------------------
(* error_level_analysis, detector.py:30-42 *)

RECURSIVE SumSeq(_)
SumSeq(s) == IF s = << >> THEN 0 ELSE Head(s) + SumSeq(Tail(s))

\* np.mean of an array of integers, in units of 1e-5
MeanOf(arr) == (SumSeq(arr) * 100000) \div Len(arr)

HOT_LEVEL == 40

\* ela_arr > 40, as an array of 0/1
HotMask(arr) == [i \in 1..Len(arr) |-> IF arr[i] > HOT_LEVEL THEN 1 ELSE 0]

\* Lines 38-40 on the difference image's intensities ela_arr
ElaSummary(ela_arr) ==
    [mean_ela |-> MeanOf(ela_arr), hot_fraction |-> MeanOf(HotMask(ela_arr))]

----------------------------------------------------------------------------
(* rgb_correlation, detector.py:59-64 *)

RECURSIVE Dot(_, _)
Dot(x, y) == IF x = << >> THEN 0 ELSE Head(x) * Head(y) + Dot(Tail(x), Tail(y))

\* n * covariance and n * variance, scaled alike
CoMoment(x, y) == Len(x) * Dot(x, y) - SumSeq(x) * SumSeq(y)

\* floor(1000 * sqrt(d))
Sqrt1000(d) == CHOOSE s \in 0..(1000 * (d + 1)) :
                    s * s <= d * 1000000 /\ (s + 1) * (s + 1) > d * 1000000

\* np.corrcoef(x, y)[0, 1]: the covariance over the product of the standard
\* deviations, clipped to [-1, 1]; a channel of one value has deviation 0 and
\* the quotient is 0/0, NaN.
Pearson(x, y) ==
    LET d == CoMoment(x, x) * CoMoment(y, y)
    IN  IF d = 0 THEN NaN
        ELSE LET q == (Abs(CoMoment(x, y)) * 100000000) \div Sqrt1000(d)
                 v == Min(q, 100000)
             IN  Num(IF CoMoment(x, y) < 0 THEN 0 - v ELSE v)

rgb_correlation(img) ==
    [rg |-> Pearson(img.r, img.g), gb |-> Pearson(img.g, img.b),
     rb |-> Pearson(img.r, img.b)]

----------------------------------------------------------------------------
(* The scoring block of analyze_image_bytes, detector.py:97-143 *)

\* A floor above the sum of the weights the compound rule can replace
SYNTH_FLOOR_HIGH == 75000 + 20000

W_EXIF       == 25000      \* score += 0.25
W_SOFTWARE   == 30000      \* score += 0.3
W_ELA        == 35000      \* score += 0.35
W_HF         == 30000      \* score += 0.30
W_CORR       == 30000      \* score += 0.30
SYNTH_FLOOR  == 75000      \* max(score, 0.75)
ELA_MEAN_MAX == 1000000    \* mean_ela > 10
HOT_MAX      == 2000       \* hot_fraction > 0.02
HF_MIN       == 3500000    \* hf < 35
CORR_MAX     == 98500      \* corr > 0.985
ELA_LOW      == 400000     \* mean_ela < 4
SCORE_MAX    == 100000     \* min(score, 1.0)
CUT_LOW      == 30000      \* score < 0.30
CUT_HIGH     == 60000      \* score < 0.60

Phrase(t) == [text |-> t, tag |-> << >>]

P_EXIF     == Phrase("EXIF metadata missing")
P_SOFTWARE(tag) == [text |-> "Software tag indicates editing: ", tag |-> tag]
P_ELA      == Phrase("ELA hotspots detected (local edits likely)")
P_HF       == Phrase("Very low high-frequency detail (AI-regenerated image likely)")
P_CORR     == Phrase("Abnormally high RGB channel correlation (AI signature)")
P_SYNTH    == Phrase("Strong evidence of fully synthetic or AI-modified image")
P_NONE     == Phrase("No tampering signals detected.")
SEPARATOR  == Phrase(" | ")

Keywords ==
    { <<"p","h","o","t","o","s","h","o","p">>, <<"g","e","m","i","n","i">>,
      <<"s","n","a","p","s","e","e","d">>, <<"e","d","i","t">> }

\* x > t for a float x that may be NaN
Above(x, t) == ~x.nan /\ x.val > t

\* Line 101 with the test inverted
ExifMissingInverted(m) == m.exif_present

\* Line 101
ExifMissing(m) == ~m.exif_present

\* Lines 106-108: a tag that is neither None nor empty and, lowercased, holds a keyword
SoftwareSuspicious(m) ==
    /\ m.software_tag.some
    /\ m.software_tag.val # << >>
    /\ LET st == Lower(m.software_tag.val)
       IN  \E k \in Keywords : Contains(st, k)

\* Line 113
ElaAnomaly(e) == e.mean_ela > ELA_MEAN_MAX \/ e.hot_fraction > HOT_MAX

\* Line 118
LowTexture(h) == h < HF_MIN

\* Line 123
HighCorrelation(c) ==
    Above(c.rg, CORR_MAX) /\ Above(c.gb, CORR_MAX) /\ Above(c.rb, CORR_MAX)

\* Line 128
SyntheticPattern(m, e, h) == ~m.exif_present /\ e.mean_ela < ELA_LOW /\ h < HF_MIN

\* `if fires: score += w; explanation_parts.append(phrase)`
AddIf(acc, fires, w, phrase) ==
    IF fires THEN [score |-> acc.score + w, parts |-> Append(acc.parts, phrase)]
    ELSE acc

\* Lines 97-125: the five weighted rules in order
Accumulate(m, e, h, c) ==
    LET s0 == [score |-> 0, parts |-> << >>]
        s1 == AddIf(s0, ExifMissing(m), W_EXIF, P_EXIF)
        s2 == AddIf(s1, SoftwareSuspicious(m), W_SOFTWARE,
                    P_SOFTWARE(IF m.software_tag.some THEN m.software_tag.val ELSE << >>))
        s3 == AddIf(s2, ElaAnomaly(e), W_ELA, P_ELA)
        s4 == AddIf(s3, LowTexture(h), W_HF, P_HF)
    IN  AddIf(s4, HighCorrelation(c), W_CORR, P_CORR)

\* Lines 128-130 with the floor assigned instead of max(score, floor)
CompoundRuleAssign(acc, m, e, h) ==
    IF SyntheticPattern(m, e, h)
    THEN [score |-> SYNTH_FLOOR, parts |-> Append(acc.parts, P_SYNTH)]
    ELSE acc

\* Lines 128-130
CompoundRule(acc, m, e, h) ==
    IF SyntheticPattern(m, e, h)
    THEN [score |-> Max(acc.score, SYNTH_FLOOR), parts |-> Append(acc.parts, P_SYNTH)]
    ELSE acc

\* Line 133 without the upper clamp
NormalizeNoCap(score) == Max(0, score)

\* Line 133
Normalize(score) == Max(0, Min(score, SCORE_MAX))

\* Lines 136-141 with the cut points on the wrong side
RecommendInclusive(score) ==
    IF score <= CUT_LOW THEN "auto_approve_ok"
    ELSE IF score <= CUT_HIGH THEN "low_priority_manual_review"
    ELSE "high_priority_manual_review"

\* Lines 136-141
Recommend(score) ==
    IF score < CUT_LOW THEN "auto_approve_ok"
    ELSE IF score < CUT_HIGH THEN "low_priority_manual_review"
    ELSE "high_priority_manual_review"

\* " | ".join(parts)
RECURSIVE Join(_)
Join(parts) ==
    IF Len(parts) <= 1 THEN parts
    ELSE <<Head(parts), SEPARATOR>> \o Join(Tail(parts))

\* Line 143 falling back to the fixed phrase for a single reason too
ExplainSingleAsNone(parts) == IF Len(parts) > 1 THEN Join(parts) ELSE <<P_NONE>>

\* Line 143
Explain(parts) == IF parts # << >> THEN Join(parts) ELSE <<P_NONE>>

\* Lines 97-143: base is the accumulator before the compound rule, raised the
\* one after it, score the normalized one.
Scoring(m, e, h, c) ==
    LET acc    == Accumulate(m, e, h, c)
        raised == CompoundRule(acc, m, e, h)
        score  == Normalize(raised.score)
    IN  [base |-> acc.score, raised |-> raised.score, score |-> score,
         parts |-> raised.parts, recommendation |-> Recommend(score),
         explanation |-> Explain(raised.parts)]

\* Lines 145-162
ResultOf(m, e, h, c, f) ==
    [tampering_score |-> Round3(f.score),
     recommendation  |-> f.recommendation,
     signals |-> [exif_present       |-> m.exif_present,
                  software_tag       |-> m.software_tag,
                  datetime_original  |-> m.datetime_original,
                  datetime_digitized |-> m.datetime_digitized,
                  datetime_generic   |-> m.datetime_generic,
                  mean_ela           |-> Round3(e.mean_ela),
                  hot_fraction       |-> Round3(e.hot_fraction),
                  high_freq_variance |-> Round3(h),
                  corr_rg            |-> Round4(c.rg),
                  corr_gb            |-> Round4(c.gb),
                  corr_rb            |-> Round4(c.rb)],
     explanation |-> f.explanation]

----------------------------------------------------------------------------
(* The request's path through app.py:21-31 and detector.py:70-162 *)

Unset == [set |-> FALSE]

Requests == [content_type : ContentTypes, body : ImageBodies \cup BadBodies]

Init ==
    /\ pc = "check_type"
    /\ request \in Requests
    /\ image = Unset /\ meta = Unset /\ ela = Unset /\ hf = Unset /\ corr = Unset
    /\ fusion = Unset /\ result = Unset /\ response = Unset
    /\ other = Unset /\ otherFusion = Unset

\* An exception nobody catches leaves the handler: the server answers 500
ServerError == [status |-> 500]
ClientError(detail) == [status |-> 400, detail |-> detail]

\* app.py:23-24.  content_type is None when the part carries no type: the
\* attribute access fails.
CheckContentType ==
    /\ pc = "check_type"
    /\ IF ~request.content_type.some
       THEN pc' = "done" /\ response' = ServerError
       ELSE IF ~StartsWith(request.content_type.val, <<"i","m","a","g","e","/">>)
       THEN pc' = "done" /\ response' = ClientError("Upload an image file.")
       ELSE pc' = "read" /\ UNCHANGED response
    /\ UNCHANGED <<request, image, meta, ela, hf, corr, fusion, result, other, otherFusion>>

\* app.py:26-28
ReadBody ==
    /\ pc = "read"
    /\ IF request.body.kind = "empty"
       THEN pc' = "done" /\ response' = ClientError("File is empty.")
       ELSE pc' = "decode" /\ UNCHANGED response
    /\ UNCHANGED <<request, image, meta, ela, hf, corr, fusion, result, other, otherFusion>>

\* A decoder that loads what a truncated file still holds
DecodableLenient(body) == body.kind \in {"image", "truncated"}

\* Image.open(...).convert("RGB") succeeds on the bytes of an image only
Decodable(body) == body.kind = "image"

\* detector.py:71-72; an exception leaves analyze_image_bytes and the handler
Decode ==
    /\ pc = "decode"
    /\ IF Decodable(request.body)
       THEN /\ image' = [exif |-> request.body.exif, r |-> request.body.r,
                         g |-> request.body.g, b |-> request.body.b]
            /\ pc' = "exif" /\ UNCHANGED response
       ELSE pc' = "done" /\ response' = ServerError /\ UNCHANGED image
    /\ UNCHANGED <<request, meta, ela, hf, corr, fusion, result, other, otherFusion>>

\* detector.py:77
ExtractExif ==
    /\ pc = "exif"
    /\ meta' = extract_exif(image)
    /\ pc' = "ela"
    /\ UNCHANGED <<request, image, ela, hf, corr, fusion, result, response, other, otherFusion>>

\* detector.py:82; the difference to the re-encoded image is the codec's
Ela ==
    /\ pc = "ela"
    /\ \E ela_arr \in [1..NPix -> ElaLevels] : ela' = ElaSummary(ela_arr)
    /\ pc' = "texture"
    /\ UNCHANGED <<request, image, meta, hf, corr, fusion, result, response, other, otherFusion>>

\* detector.py:87; the Laplacian's variance is cv2's
Texture ==
    /\ pc = "texture"
    /\ \E v \in HfReadings : hf' = v
    /\ pc' = "correlation"
    /\ UNCHANGED <<request, image, meta, ela, corr, fusion, result, response, other, otherFusion>>

\* detector.py:92
Correlation ==
    /\ pc = "correlation"
    /\ corr' = rgb_correlation(image)
    /\ pc' = "score"
    /\ UNCHANGED <<request, image, meta, ela, hf, fusion, result, response, other, otherFusion>>

\* detector.py:97-162
Score ==
    /\ pc = "score"
    /\ fusion' = Scoring(meta, ela, hf, corr)
    /\ result' = ResultOf(meta, ela, hf, corr, fusion')
    /\ pc' = "returned"
    /\ UNCHANGED <<request, image, meta, ela, hf, corr, response, other, otherFusion>>

\* json.dumps(..., allow_nan=False), which JSONResponse renders with, refuses NaN
Serializable(res) ==
    ~res.signals.corr_rg.nan /\ ~res.signals.corr_gb.nan /\ ~res.signals.corr_rb.nan

\* app.py:30-31
Respond ==
    /\ pc = "returned"
    /\ response' = IF Serializable(result) THEN [status |-> 200, body |-> result]
                   ELSE ServerError
    /\ pc' = "done"
    /\ UNCHANGED <<request, image, meta, ela, hf, corr, fusion, result, other, otherFusion>>

Next ==
    \/ CheckContentType
    \/ ReadBody
    \/ Decode
    \/ ExtractExif
    \/ Ela
    \/ Texture
    \/ Correlation
    \/ Score
    \/ Respond

Spec == Init /\ [][Next]_vars

----------------------------------------------------------------------------
(* The scoring block on its own: lines 97-162 are a function of the          *)
(* MetadataRecord and the SignalReadings, entered here with every record     *)
(* and reading of the sets below.                                            *)

Present(tag, orig, dig, gen) ==
    [exif_present |-> TRUE, software_tag |-> tag, datetime_original |-> orig,
     datetime_digitized |-> dig, datetime_generic |-> gen]

MetaRecords ==
    { EmptyRecord,
      Present(None, None, None, None),
      Present(Some(<< >>), None, None, Some("2024:05:01 10:00:00")),
      Present(Some(TagCanon), Some("2024:05:01 09:59:58"), None, None),
      Present(Some(TagPhotoshop), Some("2024:05:01 09:59:58"),
              Some("2024:05:01 09:59:59"), Some("2024:05:02 18:30:00")),
      Present(Some(TagSnapseed), None, None, None),
      Present(Some(TagEditor), None, None, None) }

\* mean_ela 2.0, 4.0, 10.0 and 11.0; hot_fraction 0, 0.02 and 0.03
ElaReadings ==
    [mean_ela : {200000, 400000, 1000000, 1100000}, hot_fraction : {0, 2000, 3000}]

\* NaN, -0.4, 0.985 and 0.99 for each pair of channels
CorrValues == {NaN, Num(-40000), Num(98500), Num(99000)}
CorrReadings == [rg : CorrValues, gb : CorrValues, rb : CorrValues]

InitFusion ==
    /\ pc = "score"
    /\ request = Unset /\ image = Unset
    /\ meta \in MetaRecords
    /\ ela \in ElaReadings
    /\ hf \in HfReadings
    /\ corr \in CorrReadings
    /\ fusion = Unset /\ result = Unset /\ response = Unset
    /\ other = Unset /\ otherFusion = Unset

NextFusion == Score

SpecFusion == InitFusion /\ [][NextFusion]_vars

----------------------------------------------------------------------------
(* Two inputs scored one after the other, to compare their scores. *)

PairMetaRecords ==
    { EmptyRecord,
      Present(None, None, None, None),
      Present(Some(TagCanon), Some("2024:05:01 09:59:58"), None, None),
      Present(Some(TagPhotoshop), Some("2024:05:01 09:59:58"),
              Some("2024:05:01 09:59:59"), Some("2024:05:02 18:30:00")) }

\* mean_ela 2.0, 5.0 and 11.0; hot_fraction 0 and 0.03
PairElaReadings == [mean_ela : {200000, 500000, 1100000}, hot_fraction : {0, 3000}]

\* Laplacian variance 20 and 200
PairHfReadings == {2000000, 20000000}

PairCorrValues == {Num(50000), Num(99000)}
PairCorrReadings == [rg : PairCorrValues, gb : PairCorrValues, rb : PairCorrValues]

PairInputs ==
    [meta : PairMetaRecords, ela : PairElaReadings, hf : PairHfReadings,
     corr : PairCorrReadings]

InitPair ==
    /\ pc = "score"
    /\ request = Unset /\ image = Unset
    /\ \E i \in PairInputs :
          meta = i.meta /\ ela = i.ela /\ hf = i.hf /\ corr = i.corr
    /\ other \in PairInputs
    /\ fusion = Unset /\ result = Unset /\ response = Unset
    /\ otherFusion = Unset

\* detector.py:97-162 on the second input
ScoreOther ==
    /\ pc = "returned"
    /\ other # Unset
    /\ otherFusion' = [fusion |-> Scoring(other.meta, other.ela, other.hf, other.corr),
                       result |-> ResultOf(other.meta, other.ela, other.hf, other.corr,
                                           Scoring(other.meta, other.ela, other.hf, other.corr))]
    /\ pc' = "compared"
    /\ UNCHANGED <<request, image, meta, ela, hf, corr, fusion, result, response, other>>

NextPair == Score \/ ScoreOther

SpecPair == InitPair /\ [][NextPair]_vars

----------------------------------------------------------------------------
(* Properties *)

Scored == result # Unset
BothScored == result # Unset /\ otherFusion # Unset

\* The six conditions as the specification words them, on the inputs of a run
AbsentC(m)     == m.exif_present = FALSE
HotElaC(e)     == e.mean_ela > 1000000 \/ e.hot_fraction > 2000
FlatC(h)       == h < 3500000
HighC(x)       == ~x.nan /\ x.val > 98500
CorrelatedC(c) == HighC(c.rg) /\ HighC(c.gb) /\ HighC(c.rb)
CompoundC(m, e, h) == AbsentC(m) /\ e.mean_ela < 400000 /\ FlatC(h)

\* C1: the returned tampering_score lies in [0.0, 1.0] for every metadata
\* record and every reading, also when the triggered weights sum to more than 1.
C1_ScoreInUnitInterval ==
    Scored => result.tampering_score >= 0 /\ result.tampering_score <= 100000

\* A run whose triggered weights sum to more than 1.0 and whose score is 1.0
C1_Witness ==
    Scored /\ fusion.base > 100000 /\ result.tampering_score = 100000

\* C2: auto_approve_ok iff the returned score < 0.30, high_priority_manual_review
\* iff it is >= 0.60, low_priority_manual_review otherwise.
C2_RecommendationByCutPoints ==
    Scored =>
        LET s == result.tampering_score
            r == result.recommendation
        IN  /\ r \in {"auto_approve_ok", "low_priority_manual_review",
                      "high_priority_manual_review"}
            /\ (r = "auto_approve_ok" <=> s < 30000)
            /\ (r = "high_priority_manual_review" <=> s >= 60000)
            /\ (r = "low_priority_manual_review" <=> (s >= 30000 /\ s < 60000))

\* A score of exactly 0.30, classified low_priority_manual_review
C2_Witness ==
    /\ Scored
    /\ result.tampering_score = 30000
    /\ result.recommendation = "low_priority_manual_review"

\* C3: with metadata absent, mean_ela < 4 and texture variance < 35 the score is
\* at least 0.75 and the recommendation high_priority_manual_review; and the
\* compound rule never leaves the score below the accumulator it was given.
C3_CompoundRuleRaises ==
    Scored =>
        /\ fusion.raised >= fusion.base
        /\ (~meta.exif_present /\ ela.mean_ela < 400000 /\ hf < 3500000) =>
              /\ result.tampering_score >= 75000
              /\ result.recommendation = "high_priority_manual_review"

\* The rule's conditions hold, the accumulator is below the floor, the score is the floor
C3_Witness ==
    /\ Scored
    /\ ~meta.exif_present /\ ela.mean_ela < 400000 /\ hf < 3500000
    /\ fusion.base < 75000
    /\ result.tampering_score = 75000

\* The five weighted conditions of an input, in the order of the code
Conditions(m, e, h, c) ==
    <<AbsentC(m), SoftwareSuspicious(m), HotElaC(e), FlatC(h), CorrelatedC(c)>>

\* b triggers exactly one condition more than a, the other four alike
OneMore(a, b) ==
    \E k \in 1..5 :
        /\ ~a[k] /\ b[k]
        /\ \A j \in (1..5) \ {k} : a[j] = b[j]

\* C4: an input that triggers one more of the five weighted conditions than
\* another, the other four alike, scores at least as high.
C4_Monotone ==
    (BothScored /\ OneMore(Conditions(meta, ela, hf, corr),
                           Conditions(other.meta, other.ela, other.hf, other.corr)))
        => otherFusion.result.tampering_score >= result.tampering_score

\* The first input meets the compound rule; the second adds only the ELA
\* condition (mean_ela above 10), so the compound rule no longer applies to it.
C4_Witness ==
    /\ BothScored
    /\ OneMore(Conditions(meta, ela, hf, corr),
               Conditions(other.meta, other.ela, other.hf, other.corr))
    /\ CompoundC(meta, ela, hf) /\ ~HotElaC(ela)
    /\ ~CompoundC(other.meta, other.ela, other.hf) /\ HotElaC(other.ela)
    /\ other.meta = meta /\ other.hf = hf /\ other.corr = corr
    /\ fusion.base < fusion.raised

\* The second input is the first with its metadata stripped
Stripped ==
    /\ meta.exif_present
    /\ other.meta = EmptyRecord
    /\ other.ela = ela /\ other.hf = hf /\ other.corr = corr

UploadTags == request.body.exif.tags
HasSuspiciousSoftware ==
    /\ request # Unset
    /\ request.body.kind = "image"
    /\ request.body.exif.kind = "ifd"
    /\ 305 \in DOMAIN UploadTags
    /\ \E k \in Keywords : Contains(Lower(UploadTags[305]), k)

\* The value the result must report for tag n of the block
Reported(n) == IF n \in DOMAIN UploadTags THEN Some(UploadTags[n]) ELSE None

\* C6: a block that carries a software identifier (tag 305) with a suspicious
\* keyword is reported as signals.software_tag, adds 0.30 to the accumulator and
\* a reason with the raw tag; the timestamps 36867, 36868, 306 are reported too.
C6_SoftwareTagReported ==
    (Scored /\ HasSuspiciousSoftware) =>
        /\ result.signals.software_tag = Some(UploadTags[305])
        /\ fusion.base >= 30000
        /\ \E i \in 1..Len(fusion.parts) :
              fusion.parts[i] = P_SOFTWARE(UploadTags[305])
        /\ result.signals.datetime_original = Reported(36867)
        /\ result.signals.datetime_digitized = Reported(36868)
        /\ result.signals.datetime_generic = Reported(306)

\* The reason phrases of an explanation: its odd places (the even ones hold separators)
PhrasesOf(x) == [i \in 1..((Len(x) + 1) \div 2) |-> x[2 * i - 1]]
WellJoined(x) ==
    /\ Len(x) % 2 = 1
    /\ \A i \in 1..Len(x) : (i % 2 = 0) => x[i] = SEPARATOR

Opt(cond, phrase) == IF cond THEN <<phrase>> ELSE << >>

\* The triggered reason phrases in the order metadata, software, ELA, texture,
\* correlation, compound
ExpectedPhrases ==
    Opt(AbsentC(meta), P_EXIF)
    \o Opt(SoftwareSuspicious(meta), P_SOFTWARE(IF meta.software_tag.some
                                                THEN meta.software_tag.val ELSE << >>))
    \o Opt(HotElaC(ela), P_ELA)
    \o Opt(FlatC(hf), P_HF)
    \o Opt(CorrelatedC(corr), P_CORR)
    \o Opt(CompoundC(meta, ela, hf), P_SYNTH)

NothingFired ==
    /\ ~AbsentC(meta) /\ ~SoftwareSuspicious(meta) /\ ~HotElaC(ela) /\ ~FlatC(hf)
    /\ ~CorrelatedC(corr) /\ ~CompoundC(meta, ela, hf)

\* C7: the explanation is the fixed phrase iff none of the six conditions fired,
\* and then the score is 0.0 and the recommendation auto_approve_ok; otherwise it
\* is the triggered reason phrases, joined in the fixed order.
C7_Explanation ==
    Scored =>
        /\ (result.explanation = <<P_NONE>>) <=> NothingFired
        /\ NothingFired => /\ result.tampering_score = 0
                           /\ result.recommendation = "auto_approve_ok"
        /\ ~NothingFired => /\ WellJoined(result.explanation)
                            /\ PhrasesOf(result.explanation) = ExpectedPhrases

\* Nothing fired, on a record that carries a harmless software tag
C7_Witness ==
    /\ Scored /\ NothingFired
    /\ meta.software_tag = Some(TagCanon)
    /\ result.explanation = <<P_NONE>>
    /\ result.tampering_score = 0

NoUsableBlock ==
    image # Unset /\ (image.exif.kind = "unreadable" \/ DOMAIN image.exif.tags = {})

\* C8: with no metadata block, or one that cannot be read, extract_exif returns
\* the empty record instead of raising, and analyze_image_bytes goes on to a
\* result in which the metadata-missing condition is triggered.
C8_ExtractNeverRaises ==
    /\ (NoUsableBlock /\ meta # Unset) => meta = EmptyRecord
    /\ (NoUsableBlock /\ pc = "done") =>
          /\ Scored
          /\ result.signals.exif_present = FALSE
          /\ result.signals.software_tag = None
          /\ result.signals.datetime_original = None
          /\ result.signals.datetime_digitized = None
          /\ result.signals.datetime_generic = None
          /\ fusion.base >= 25000
          /\ fusion.parts # << >> /\ fusion.parts[1] = P_EXIF

\* An unreadable block, the request answered with the metadata-missing reason
C8_Witness ==
    /\ pc = "done" /\ Scored
    /\ image.exif.kind = "unreadable"
    /\ response.status = 200
    /\ response.body.explanation[1] = P_EXIF

ImageType ==
    /\ request.content_type.some
    /\ StartsWith(request.content_type.val, <<"i","m","a","g","e","/">>)
Undecodable == request.body.kind \in {"malformed", "truncated", "unsupported"}
NothingComputed ==
    /\ meta = Unset /\ ela = Unset /\ hf = Unset /\ corr = Unset
    /\ fusion = Unset /\ result = Unset

\* C9: undecodable bytes end analyze_image_bytes before any signal or score is
\* computed, no result exists and the endpoint answers with an error; an empty
\* upload or a non-image content type is rejected before analyze_image_bytes
\* is entered.
C9_DecodeErrorNoResult ==
    /\ Undecodable => NothingComputed /\ image = Unset
    /\ (Undecodable /\ pc = "done") => response.status >= 400
    /\ (~ImageType \/ request.body.kind = "empty") =>
          /\ pc \in {"check_type", "read", "done"}
          /\ NothingComputed /\ image = Unset
          /\ pc = "done" => response.status >= 400

\* A truncated upload of an image type, answered with the server's error
C9_Witness ==
    /\ pc = "done" /\ ImageType
    /\ request.body.kind = "truncated"
    /\ response = ServerError /\ NothingComputed

InUnit(x) == ~x.nan /\ x.val >= -100000 /\ x.val <= 100000

\* C10: every decoded image, also one with a channel of a single value, gets a
\* result whose three correlations are numbers in [-1, 1], whose hot_fraction is
\* in [0, 1] and whose mean_ela and high_freq_variance are >= 0.
C10_SignalsWellFormed ==
    Scored =>
        /\ InUnit(result.signals.corr_rg)
        /\ InUnit(result.signals.corr_gb)
        /\ InUnit(result.signals.corr_rb)
        /\ result.signals.hot_fraction >= 0 /\ result.signals.hot_fraction <= 100000
        /\ result.signals.mean_ela >= 0
        /\ result.signals.high_freq_variance >= 0

====
